---------------------------- MODULE Spec2Model ----------------------------
(***************************************************************************)
(* A model of the document workflow of pdf-rag-qa: FileValidator           *)
(* (utils/file_utils.py), DocumentRepository                               *)
(* (repositories/document_repository.py), DocumentService                  *)
(* (services/document_service.py) and DocumentController                   *)
(* (controllers/document_controller.py).                                   *)
(*                                                                         *)
(* The object store and the documents table are external.  Every handler   *)
(* is cut into one action per call it makes on them, so that requests      *)
(* interleave exactly at those calls.  A call either takes effect and      *)
(* answers, or raises and leaves the store as it was (the parameter ok of  *)
(* the actions).  All handlers speak to the stores through the one         *)
(* process-wide client of db/supabase_client.py:17; no request attaches    *)
(* its caller's token to it, so what a query returns depends on its        *)
(* filters alone.                                                          *)
(*                                                                         *)
(* Optional values are sequences of length 0 or 1 (None / Some).           *)
(***************************************************************************)
EXTENDS Integers, Sequences, FiniteSets, TLC

\* ------------------------------------------------------------- bounds
\* How many requests are started in one behaviour.
MaxOps == 2
\* The largest limit and offset a list request is given.
MaxLimit == 2
MaxOffset == 1

\* ---------------------------------------------------------- constants
\* settings.max_file_size_mb
max_file_size_mb == 5
\* settings.allowed_mime_types
allowed_mime_types == {"application/pdf"}

None == <<>>
Some(x) == <<x>>

Users == {"u1", "u2"}
Tasks == {"t1", "t2"}

\* --------------------------------------------------------------- text
\* A filename is a sequence of one-character strings.
Upper == <<"A","B","C","D","E","F","G","H","I","J","K","L","M",
           "N","O","P","Q","R","S","T","U","V","W","X","Y","Z">>
Lowercase == <<"a","b","c","d","e","f","g","h","i","j","k","l","m",
               "n","o","p","q","r","s","t","u","v","w","x","y","z">>
Digits == {"0","1","2","3","4","5","6","7","8","9"}

Range(s) == {s[i] : i \in 1..Len(s)}

\* str.lower(), one character
LowerChar(c) ==
    IF \E i \in 1..Len(Upper) : Upper[i] = c
    THEN Lowercase[CHOOSE i \in 1..Len(Upper) : Upper[i] = c]
    ELSE c

\* str.lower()
Lower(s) == [i \in 1..Len(s) |-> LowerChar(s[i])]

\* str.endswith(suffix)
EndsWith(s, suffix) ==
    /\ Len(s) >= Len(suffix)
    /\ SubSeq(s, Len(s) - Len(suffix) + 1, Len(s)) = suffix

\* The index of the last occurrence of c in s, 0 when there is none.
LastIndexOf(s, c) ==
    IF \E i \in 1..Len(s) : s[i] = c
    THEN CHOOSE i \in 1..Len(s) :
            s[i] = c /\ \A j \in (i+1)..Len(s) : s[j] # c
    ELSE 0

\* The '/'-separated parts of s, in order (str.split('/')).
RECURSIVE SplitSlash(_)
SplitSlash(s) ==
    LET k == LastIndexOf(s, "/")
    IN  IF k = 0 THEN <<s>>
        ELSE Append(SplitSlash(SubSeq(s, 1, k - 1)), SubSeq(s, k + 1, Len(s)))

\* pathlib.PurePosixPath(s).name: the last part that is neither empty nor
\* '.', the empty string when there is none.
PathName(s) ==
    LET parts == SelectSeq(SplitSlash(s), LAMBDA p : p # <<>> /\ p # <<".">>)
    IN  IF parts = <<>> THEN <<>> ELSE parts[Len(parts)]

\* The characters re.sub(r'[^\w\s\-\.]', '', _) keeps.
KeptChar(c) ==
    c \in Range(Upper) \cup Range(Lowercase) \cup Digits \cup {"_", " ", "-", "."}

PdfExt == <<".", "p", "d", "f">>

\* ------------------------------------------------------ FileValidator
\* An uploaded file: its declared content type, its filename and its
\* payload.  A payload is its length in bytes and the bytes themselves
\* (body); two payloads are the same bytes iff both fields agree.
max_size_bytes == max_file_size_mb * 1024 * 1024

Ok == [code |-> 0, detail |-> ""]
Http(code, detail) == [code |-> code, detail |-> detail]

\* a validation that turns away a file of exactly the maximum size
validate_pdf_SizeOffByOne(file, max_size_mb, allowed_types) ==
    IF file = None
    THEN Http(400, "No file provided")
    ELSE LET f == file[1]
         IN  IF f.content_type \notin allowed_types
             THEN Http(400, "Invalid file type. Only PDF files are allowed. Got: "
                                \o f.content_type)
             ELSE IF ~EndsWith(Lower(f.filename), PdfExt)
             THEN Http(400, "File must have .pdf extension")
             ELSE IF f.payload.size >= max_size_mb * 1024 * 1024
             THEN Http(413, "File too large. Maximum size: "
                                \o ToString(max_size_mb) \o "MB")
             ELSE IF f.payload.size = 0
             THEN Http(400, "File is empty")
             ELSE Ok

\* a validation without the extension check
validate_pdf_NoExtension(file, max_size_mb, allowed_types) ==
    IF file = None
    THEN Http(400, "No file provided")
    ELSE LET f == file[1]
         IN  IF f.content_type \notin allowed_types
             THEN Http(400, "Invalid file type. Only PDF files are allowed. Got: "
                                \o f.content_type)
             ELSE IF f.payload.size > max_size_mb * 1024 * 1024
             THEN Http(413, "File too large. Maximum size: "
                                \o ToString(max_size_mb) \o "MB")
             ELSE IF f.payload.size = 0
             THEN Http(400, "File is empty")
             ELSE Ok

\* FileValidator.validate_pdf: Ok when nothing is raised, else the
\* HTTPException raised.
validate_pdf(file, max_size_mb, allowed_types) ==
    IF file = None
    THEN Http(400, "No file provided")
    ELSE LET f == file[1]
             size_bytes == f.payload.size
         IN  IF f.content_type \notin allowed_types
             THEN Http(400, "Invalid file type. Only PDF files are allowed. Got: "
                                \o f.content_type)
             ELSE IF ~EndsWith(Lower(f.filename), PdfExt)
             THEN Http(400, "File must have .pdf extension")
             ELSE IF size_bytes > max_size_mb * 1024 * 1024
             THEN Http(413, "File too large. Maximum size: "
                                \o ToString(max_size_mb) \o "MB")
             ELSE IF size_bytes = 0
             THEN Http(400, "File is empty")
             ELSE Ok

\* a sanitizer that returns the filename as it came
sanitize_filename_AsGiven(filename) == filename

\* name, ext = filename.rsplit('.', 1) raises ValueError for a name over
\* 255 characters without a dot: sanitize_filename returns nothing then.
SanitizeRaises(filename) ==
    LET name == SelectSeq(PathName(filename), KeptChar)
    IN  Len(name) > 255 /\ LastIndexOf(name, ".") = 0

\* FileValidator.sanitize_filename
sanitize_filename(filename) ==
    LET name == SelectSeq(PathName(filename), KeptChar)
    IN  IF Len(name) > 255
        THEN LET k == LastIndexOf(name, ".")
                 stem == SubSeq(name, 1, k - 1)
             IN  SubSeq(stem, 1, IF Len(stem) > 250 THEN 250 ELSE Len(stem))
                    \o <<".">> \o SubSeq(name, k + 1, Len(name))
        ELSE name

\* The storage path f"{user_id}/{document_id}_{sanitized_name}", as the
\* sequence of its pieces: the user id, '/', the document id, '_' and the
\* characters of the sanitized name.
StoragePath(user_id, document_id, sanitized_name) ==
    <<user_id, "/", document_id, "_">> \o sanitized_name


\* -------------------------------------------------------------- inputs
Name_a_pdf == <<"a", ".", "p", "d", "f">>
Name_up_PDF == <<".", ".", "/", "B", ".", "P", "D", "F">>
Name_a_txt == <<"a", ".", "t", "x", "t">>

File(content_type, filename, payload) ==
    [content_type |-> content_type, filename |-> filename, payload |-> payload]

\* A metadata mapping is a set of <<key, value>> pairs.
EmptyDict == {}

Upload(file, metadata) == [file |-> file, metadata |-> metadata]

\* What upload requests carry: two files that pass validation (one of a
\* single byte without metadata, one of exactly the maximum size under a
\* traversal-shaped upper-case name with metadata), and one file for each
\* way of failing validation.
SmallPdf ==
    Upload(Some(File("application/pdf", Name_a_pdf, [size |-> 1, body |-> "b1"])),
           None)
LargestPdf ==
    Upload(Some(File("application/pdf", Name_up_PDF,
                     [size |-> max_size_bytes, body |-> "b2"])),
           Some({<<"title", "T">>}))
Uploads ==
    { SmallPdf, LargestPdf,
      Upload(None, None),
      Upload(Some(File("text/plain", Name_a_pdf, [size |-> 1, body |-> "b1"])),
             None),
      Upload(Some(File("application/pdf", Name_a_txt, [size |-> 1, body |-> "b1"])),
             None),
      Upload(Some(File("application/pdf", Name_a_pdf,
                       [size |-> max_size_bytes + 1, body |-> "b1"])),
             None),
      Upload(Some(File("application/pdf", Name_a_pdf, [size |-> 0, body |-> "b0"])),
             None) }

\* The ids uuid4() returns, in the order it returns them, and an id it
\* never returns.
\* a uuid4() that returns the same id again
Uuid_Again(n) == "d1"
Uuid(n) == "d" \o ToString(n)
UnknownId == "d0"

\* --------------------------------------------------------------- state
VARIABLES
    documents,  \* the rows of the documents table
    storage,    \* the bucket: the objects it holds
    nextId,     \* how many ids uuid4() has returned
    now,        \* the table's clock, the source of created_at
    task,       \* per request slot: the handler running in it and its locals
    started,    \* how many requests have been started
    uploads,    \* the uploads answered 202 that no delete has acted on since:
                \* the id returned, the user and the payload sent
    removeFailed, \* the paths of which a storage removal has failed
    gate,       \* per request slot: what get_current_user was given and
                \* returned for the request running in it
    wrong_logins, \* how many wrong-password logins in a row have been answered
    sessions,   \* the provider: the access tokens whose session it holds
    client_session, \* the session the process's one Supabase client holds
    logged_out  \* the tokens borne by a logout answered 200 whose sign_out
                \* did not fail, and not issued again since

sessionVars == <<sessions, client_session, logged_out>>
authVars == <<gate, wrong_logins, sessions, client_session, logged_out>>

vars == <<documents, storage, nextId, now, task, started, uploads, removeFailed,
          gate, wrong_logins, sessions, client_session, logged_out>>

IdleTask ==
    [op |-> "none", pc |-> "idle", user_id |-> "", file |-> None,
     metadata |-> None, document_id |-> "", storage_path |-> <<>>,
     document |-> None, limit |-> 0, offset |-> 0, rows |-> <<>>,
     total |-> 0, resp |-> Ok, body |-> None, calls |-> <<>>,
     request |-> None]

\* No request in the slot has been through get_current_user.
IdleGate == [route |-> "none", credentials |-> None, answer |-> None,
             current_user |-> None]

\* A slot is free for a new request when it is idle or its last request
\* has been answered.  An answer stays in its slot for one state: the
\* next step of any request takes it away (Settled).
Free(t) == task[t].pc \in {"idle", "done"}
Quiescent == \A t \in Tasks : Free(t)
Settled == [x \in Tasks |-> IF task[x].pc = "done" THEN IdleTask ELSE task[x]]
Step(t, r) == task' = [Settled EXCEPT ![t] = r]

\* Requests are interchangeable, so a new one takes slot t1 when it is
\* free, and t2 only while t1 is busy.  The requests of a behaviour run
\* one after the other, except the last, which may start while the one
\* before it is in flight.
MayStart(t) ==
    /\ Free(t)
    /\ started < MaxOps
    /\ \/ t = "t1"
       \/ ~Free("t1") /\ started = MaxOps - 1

\* The ids a request may name: those handed out so far, and an unknown one.
KnownIds == {Uuid(n) : n \in 1..nextId} \cup {UnknownId}

Call(name, ok) == [call |-> name, ok |-> ok]

\* The row the table keeps for the inserted data: it stamps created_at.
Inserted(data, at) ==
    [id |-> data.id, user_id |-> data.user_id, file_name |-> data.file_name,
     bucket_path |-> data.bucket_path, status |-> data.status,
     metadata |-> data.metadata, created_at |-> at]

\* The table and the bucket outlive the process.  When it starts they hold
\* what earlier uploads that were answered 202 left: nothing, or the row
\* and the object upload_document writes for one upload.
Seeds ==
    { <<>>,
      <<[user_id |-> "u1", upload |-> SmallPdf]>> }

SeedPath(seed, n) ==
    StoragePath(seed[n].user_id, Uuid(n),
                sanitize_filename(seed[n].upload.file[1].filename))

SeedRow(seed, n) ==
    Inserted([id |-> Uuid(n), user_id |-> seed[n].user_id,
              file_name |-> seed[n].upload.file[1].filename,
              bucket_path |-> SeedPath(seed, n), status |-> "pending",
              metadata |-> IF seed[n].upload.metadata = None THEN EmptyDict
                           ELSE seed[n].upload.metadata[1]],
             n)

Init ==
    \E seed \in Seeds :
        /\ documents = {SeedRow(seed, n) : n \in 1..Len(seed)}
        /\ storage = {[path |-> SeedPath(seed, n),
                       payload |-> seed[n].upload.file[1].payload] :
                         n \in 1..Len(seed)}
        /\ nextId = Len(seed)
        /\ now = Len(seed)
        /\ task = [t \in Tasks |-> IdleTask]
        /\ started = 0
        /\ uploads = {[document_id |-> Uuid(n), user_id |-> seed[n].user_id,
                       payload |-> seed[n].upload.file[1].payload] :
                         n \in 1..Len(seed)}
        /\ removeFailed = {}
        /\ gate = [t \in Tasks |-> IdleGate]
        /\ wrong_logins = 0
        /\ sessions = {"T1", "T2"}
        /\ client_session = None
        /\ logged_out = {}

\* ------------------------------------------------------ object storage
\* The bucket is a set of objects [path, payload], at most one per path.
Exists(path) == \E o \in storage : o.path = path
\* storage.from_(bucket).upload(path, file), at a path that holds nothing
StorageUpload(path, payload) ==
    storage \cup {[path |-> path, payload |-> payload]}
\* a removal that answers without removing anything
StorageRemove_Nothing(path) == storage
\* storage.from_(bucket).remove([path])
StorageRemove(path) == {o \in storage : o.path # path}
\* a download that answers with the bytes of whichever object
StorageDownload_AnyObject(path) == (CHOOSE o \in storage : TRUE).payload
\* storage.from_(bucket).download(path), of an object that exists
StorageDownload(path) == (CHOOSE o \in storage : o.path = path).payload

\* ---------------------------------------------------- documents table
\* .select("*").eq("id", document_id): the rows the query returns
SelectById(document_id) == {d \in documents : d.id = document_id}

\* ------------------------------------------------- DocumentRepository
\* a create that inserts the row as already processed
create_Completed(document_id, user_id, file_name, bucket_path, metadata) ==
    Inserted([id |-> document_id, user_id |-> user_id, file_name |-> file_name,
              bucket_path |-> bucket_path, status |-> "completed",
              metadata |-> IF metadata = None THEN EmptyDict ELSE metadata[1]],
             now + 1)

\* DocumentRepository.create: the row inserted and returned; the table
\* stamps created_at.
create(document_id, user_id, file_name, bucket_path, metadata) ==
    Inserted([id |-> document_id, user_id |-> user_id, file_name |-> file_name,
              bucket_path |-> bucket_path, status |-> "pending",
              metadata |-> IF metadata = None THEN EmptyDict ELSE metadata[1]],
             now + 1)

\* DocumentRepository.get_by_id: the row, or None; an exception of the
\* query (~ok) is logged and answered None.
get_by_id(document_id, user_id, ok) ==
    IF ok /\ SelectById(document_id) # {}
    THEN Some(CHOOSE d \in SelectById(document_id) : TRUE)
    ELSE None

\* sorted by created_at, newest first (.order("created_at", desc=True))
RECURSIVE OrderDesc(_)
OrderDesc(rows) ==
    IF rows = {} THEN <<>>
    ELSE LET newest == CHOOSE d \in rows :
                          \A e \in rows : e.created_at <= d.created_at
         IN  <<newest>> \o OrderDesc(rows \ {newest})

\* .range(first, last): the rows at positions first..last, counted from 0
RangeOf(seq, first, last) ==
    SubSeq(seq, first + 1, IF last + 1 < Len(seq) THEN last + 1 ELSE Len(seq))

\* DocumentRepository.list_by_user, its first query
ListWindow(user_id, limit, offset) ==
    RangeOf(OrderDesc({d \in documents : d.user_id = user_id}),
            offset, offset + limit - 1)

\* DocumentRepository.list_by_user, its count query (count="exact")
ListTotal(user_id) ==
    LET count == Cardinality({d \in documents : d.user_id = user_id})
    IN  IF count # 0 THEN count ELSE 0

\* DocumentRepository.delete: the rows the delete removes
DeletedRows(document_id, user_id) == SelectById(document_id)

\* ------------------------------------ DocumentService.upload_document
Begin(op, user_id) ==
    [IdleTask EXCEPT !.op = op, !.user_id = user_id]

Finish(r, resp) == [r EXCEPT !.pc = "done", !.resp = resp]

Called(r, name, ok) == [r EXCEPT !.calls = Append(@, Call(name, ok))]

\* FileValidator.generate_storage_path, given the id uuid4() returned
generate_storage_path(user_id, filename, uuid) ==
    [document_id |-> uuid,
     storage_path |-> StoragePath(user_id, uuid, sanitize_filename(filename))]

\* Validation, path generation and reading the payload: all local.
UploadStart(t, user_id, file, metadata) ==
    /\ MayStart(t)
    /\ started' = started + 1
    /\ LET r == [Begin("upload", user_id) EXCEPT
                    !.file = file, !.metadata = metadata]
           v == validate_pdf(file, max_file_size_mb, allowed_mime_types)
       IN  IF v # Ok
           THEN /\ Step(t, Finish(r, v))
                /\ UNCHANGED nextId
           ELSE /\ nextId' = nextId + 1
                /\ LET g == generate_storage_path(
                                user_id, file[1].filename, Uuid(nextId + 1))
                   IN  Step(t, [r EXCEPT !.pc = "storage_upload",
                                         !.document_id = g.document_id,
                                         !.storage_path = g.storage_path])
    /\ UNCHANGED <<documents, storage, now, uploads, removeFailed>>

\* an upload that goes on to the insert after a failed storage write
UploadStorageWrite_GoesOn(t, ok) ==
    /\ task[t].pc = "storage_upload"
    /\ storage' = IF ok THEN StorageUpload(task[t].storage_path,
                                           task[t].file[1].payload)
                        ELSE storage
    /\ Step(t, [Called(task[t], "storage.upload", ok) EXCEPT !.pc = "db_insert"])
    /\ UNCHANGED <<documents, nextId, now, started, uploads, removeFailed>>

\* storage.upload(path=storage_path, file=file_content)
UploadStorageWrite(t, ok) ==
    /\ task[t].pc = "storage_upload"
    /\ LET r == Called(task[t], "storage.upload", ok)
       IN  IF ok
           THEN /\ storage' = StorageUpload(r.storage_path, r.file[1].payload)
                /\ Step(t, [r EXCEPT !.pc = "db_insert"])
           ELSE /\ storage' = storage
                /\ Step(t, Finish(r, Http(500, "Failed to upload file to storage")))
    /\ UNCHANGED <<documents, nextId, now, started, uploads, removeFailed>>

\* repository.create(...)
UploadInsert(t, ok) ==
    /\ task[t].pc = "db_insert"
    /\ LET r == Called(task[t], "table.insert", ok)
           row == create(r.document_id, r.user_id, r.file[1].filename,
                         r.storage_path, r.metadata)
       IN  IF ok
           THEN /\ documents' = documents \cup {row}
                /\ now' = now + 1
                /\ uploads' = uploads \cup
                       {[document_id |-> row.id, user_id |-> r.user_id,
                         payload |-> r.file[1].payload]}
                /\ Step(t, Finish([r EXCEPT !.document = Some(row)],
                                  Http(202, "Upload successful. Document is pending processing.")))
           ELSE /\ UNCHANGED <<documents, now, uploads>>
                /\ Step(t, [r EXCEPT !.pc = "compensate"])
    /\ UNCHANGED <<storage, nextId, started, removeFailed>>

\* an upload that answers the failed insert without the compensating removal
UploadCompensate_Skipped(t, ok) ==
    /\ task[t].pc = "compensate"
    /\ Step(t, Finish(task[t], Http(500, "Failed to create document record")))
    /\ UNCHANGED <<documents, storage, nextId, now, started, uploads, removeFailed>>

\* an upload that answers the failure of its compensating removal
UploadCompensate_Propagates(t, ok) ==
    /\ task[t].pc = "compensate"
    /\ LET r == Called(task[t], "storage.remove", ok)
       IN  /\ storage' = IF ok THEN StorageRemove(r.storage_path) ELSE storage
           /\ removeFailed' = IF ok THEN removeFailed
                                    ELSE removeFailed \cup {r.storage_path}
           /\ Step(t, Finish(r, IF ok THEN Http(500, "Failed to create document record")
                                      ELSE Http(500, "Upload failed")))
    /\ UNCHANGED <<documents, nextId, now, started, uploads>>

\* the compensating storage.remove([storage_path]); its failure is passed over
UploadCompensate(t, ok) ==
    /\ task[t].pc = "compensate"
    /\ LET r == Called(task[t], "storage.remove", ok)
       IN  /\ storage' = IF ok THEN StorageRemove(r.storage_path) ELSE storage
           /\ removeFailed' = IF ok THEN removeFailed
                                    ELSE removeFailed \cup {r.storage_path}
           /\ Step(t, Finish(r, Http(500, "Failed to create document record")))
    /\ UNCHANGED <<documents, nextId, now, started, uploads>>

\* --------------------------------------- DocumentService.get_document
NotFound == Http(404, "Document not found")

\* DocumentController.handle_get
Get(t, user_id, document_id, ok) ==
    /\ MayStart(t)
    /\ started' = started + 1
    /\ LET r == Called([Begin("get", user_id) EXCEPT !.document_id = document_id],
                       "table.select", ok)
           document == get_by_id(document_id, user_id, ok)
       IN  IF document = None
           THEN Step(t, Finish(r, NotFound))
           ELSE Step(t, Finish([r EXCEPT !.document = document], Http(200, "")))
    /\ UNCHANGED <<documents, storage, nextId, now, uploads, removeFailed>>

\* ------------------------------------- DocumentService.list_documents
\* list_by_user's first query; an exception is answered ([], 0)
ListStart(t, user_id, limit, offset, ok) ==
    /\ MayStart(t)
    /\ started' = started + 1
    /\ LET r == Called([Begin("list", user_id) EXCEPT
                           !.limit = limit, !.offset = offset],
                       "table.select", ok)
       IN  IF ok
           THEN Step(t, [r EXCEPT !.pc = "count",
                                  !.rows = ListWindow(user_id, limit, offset)])
           ELSE Step(t, Finish(r, Http(200, "")))
    /\ UNCHANGED <<documents, storage, nextId, now, uploads, removeFailed>>

\* list_by_user's count query; an exception is answered ([], 0)
ListCount(t, ok) ==
    /\ task[t].pc = "count"
    /\ LET r == Called(task[t], "table.count", ok)
       IN  IF ok
           THEN Step(t, Finish([r EXCEPT !.total = ListTotal(r.user_id)],
                               Http(200, "")))
           ELSE Step(t, Finish([r EXCEPT !.rows = <<>>, !.total = 0],
                               Http(200, "")))
    /\ UNCHANGED <<documents, storage, nextId, now, started, uploads, removeFailed>>

\* ------------------------------------ DocumentService.delete_document
\* document = self.get_document(document_id, user_id)
DeleteStart(t, user_id, document_id, ok) ==
    /\ MayStart(t)
    /\ started' = started + 1
    /\ LET r == Called([Begin("delete", user_id) EXCEPT !.document_id = document_id],
                       "table.select", ok)
           document == get_by_id(document_id, user_id, ok)
       IN  IF document = None
           THEN /\ Step(t, Finish(r, NotFound))
                /\ UNCHANGED uploads
           ELSE /\ Step(t, [r EXCEPT !.pc = "remove_object", !.document = document])
                /\ uploads' = {u \in uploads : u.document_id # document_id}
    /\ UNCHANGED <<documents, storage, nextId, now, removeFailed>>

\* a delete that answers 500 when the storage removal fails
DeleteRemoveObject_Stops(t, ok) ==
    /\ task[t].pc = "remove_object"
    /\ storage' = IF ok THEN StorageRemove(task[t].document[1].bucket_path)
                        ELSE storage
    /\ removeFailed' = IF ok THEN removeFailed
                             ELSE removeFailed \cup {task[t].document[1].bucket_path}
    /\ LET r == Called(task[t], "storage.remove", ok)
       IN  IF ok THEN Step(t, [r EXCEPT !.pc = "delete_row"])
                 ELSE Step(t, Finish(r, Http(500, "Failed to delete document")))
    /\ UNCHANGED <<documents, nextId, now, started, uploads>>
\* storage.remove([document["bucket_path"]]); its failure is logged only
DeleteRemoveObject(t, ok) ==
    /\ task[t].pc = "remove_object"
    /\ storage' = IF ok THEN StorageRemove(task[t].document[1].bucket_path)
                        ELSE storage
    /\ removeFailed' = IF ok THEN removeFailed
                             ELSE removeFailed \cup {task[t].document[1].bucket_path}
    /\ Step(t, [Called(task[t], "storage.remove", ok) EXCEPT !.pc = "delete_row"])
    /\ UNCHANGED <<documents, nextId, now, started, uploads>>

\* success = self.repository.delete(document_id, user_id)
DeleteRow(t, ok) ==
    /\ task[t].pc = "delete_row"
    /\ LET r == Called(task[t], "table.delete", ok)
           deleted == IF ok THEN DeletedRows(r.document_id, r.user_id) ELSE {}
           success == Cardinality(deleted) > 0
       IN  /\ documents' = documents \ deleted
           /\ IF success
              THEN Step(t, Finish(r, Http(200, "Document deleted successfully")))
              ELSE Step(t, Finish(r, Http(500, "Failed to delete document")))
    /\ UNCHANGED <<storage, nextId, now, started, uploads, removeFailed>>

\* ----------------------------------- DocumentController.handle_download
\* document = self.service.get_document(document_id, user_id)
DownloadStart(t, user_id, document_id, ok) ==
    /\ MayStart(t)
    /\ started' = started + 1
    /\ LET r == Called([Begin("download", user_id) EXCEPT !.document_id = document_id],
                       "table.select", ok)
           document == get_by_id(document_id, user_id, ok)
       IN  IF document = None
           THEN Step(t, Finish(r, NotFound))
           ELSE Step(t, [r EXCEPT !.pc = "lookup", !.document = document])
    /\ UNCHANGED <<documents, storage, nextId, now, uploads, removeFailed>>

\* download_document: its own document = self.get_document(...), whose
\* bucket_path is the one read
DownloadLookup(t, ok) ==
    /\ task[t].pc = "lookup"
    /\ LET r == Called(task[t], "table.select", ok)
           document == get_by_id(r.document_id, r.user_id, ok)
       IN  IF document = None
           THEN Step(t, Finish(r, NotFound))
           ELSE Step(t, [r EXCEPT !.pc = "storage_download",
                                  !.storage_path = document[1].bucket_path])
    /\ UNCHANGED <<documents, storage, nextId, now, started, uploads, removeFailed>>

\* a download that answers a failed storage read as 404
DownloadRead_NotFoundOnFailure(t, ok) ==
    /\ task[t].pc = "storage_download"
    /\ LET r == Called(task[t], "storage.download", ok)
       IN  IF ok /\ Exists(r.storage_path)
           THEN Step(t, Finish([r EXCEPT !.body = Some(StorageDownload(r.storage_path))],
                               Http(200, "")))
           ELSE Step(t, Finish(r, NotFound))
    /\ UNCHANGED <<documents, storage, nextId, now, started, uploads, removeFailed>>
\* storage.download(document["bucket_path"]); it raises when the call
\* fails and when there is no object at the path
DownloadRead(t, ok) ==
    /\ task[t].pc = "storage_download"
    /\ LET r == Called(task[t], "storage.download", ok)
       IN  IF ok /\ Exists(r.storage_path)
           THEN Step(t, Finish([r EXCEPT !.body = Some(StorageDownload(r.storage_path))],
                               Http(200, "")))
           ELSE Step(t, Finish(r, Http(500, "Failed to download file")))
    /\ UNCHANGED <<documents, storage, nextId, now, started, uploads, removeFailed>>

\* ------------------------------------------------------- specification
Next ==
    \E t \in Tasks :
        \/ \E u \in Users, up \in Uploads :
              UploadStart(t, u, up.file, up.metadata) /\ UNCHANGED authVars
        \/ \E ok \in BOOLEAN : UploadStorageWrite(t, ok) /\ UNCHANGED authVars
        \/ \E ok \in BOOLEAN : UploadInsert(t, ok) /\ UNCHANGED authVars
        \/ \E ok \in BOOLEAN : UploadCompensate(t, ok) /\ UNCHANGED authVars
        \/ \E u \in Users, d \in KnownIds, ok \in BOOLEAN :
              Get(t, u, d, ok) /\ UNCHANGED authVars
        \/ \E u \in Users, l \in 1..MaxLimit, o \in 0..MaxOffset, ok \in BOOLEAN :
              ListStart(t, u, l, o, ok) /\ UNCHANGED authVars
        \/ \E ok \in BOOLEAN : ListCount(t, ok) /\ UNCHANGED authVars
        \/ \E u \in Users, d \in KnownIds, ok \in BOOLEAN :
              DeleteStart(t, u, d, ok) /\ UNCHANGED authVars
        \/ \E ok \in BOOLEAN : DeleteRemoveObject(t, ok) /\ UNCHANGED authVars
        \/ \E ok \in BOOLEAN : DeleteRow(t, ok) /\ UNCHANGED authVars
        \/ \E u \in Users, d \in KnownIds, ok \in BOOLEAN :
              DownloadStart(t, u, d, ok) /\ UNCHANGED authVars
        \/ \E ok \in BOOLEAN : DownloadLookup(t, ok) /\ UNCHANGED authVars
        \/ \E ok \in BOOLEAN : DownloadRead(t, ok) /\ UNCHANGED authVars

Spec == Init /\ [][Next]_vars

\* The validator on its own: uploads of every file of ValidatedFiles, which
\* combine the ways of failing validation.
Name_pdf == <<"p", "d", "f">>
ValidatedFiles ==
    {None} \cup
    { Some(File(c, n, [size |-> z, body |-> "b1"])) :
        c \in {"application/pdf", "text/plain", "application/x-pdf"},
        n \in {Name_a_pdf, Name_up_PDF, Name_a_txt, Name_pdf},
        z \in {0, 1, max_size_bytes - 1, max_size_bytes, max_size_bytes + 1} }

NextValidate ==
    \E t \in Tasks, u \in Users, f \in ValidatedFiles :
        UploadStart(t, u, f, None) /\ UNCHANGED authVars

SpecValidate == Init /\ [][NextValidate]_vars

\* ===================================================== authentication
\* Text as Python has it: str.lower() and the 'in' test on strings.
RECURSIVE LowerStr(_)
LowerStr(s) ==
    IF s = "" THEN ""
    ELSE LowerChar(SubSeq(s, 1, 1)) \o LowerStr(SubSeq(s, 2, Len(s)))

Contains(s, sub) ==
    \E i \in 1..(Len(s) - Len(sub) + 1) : SubSeq(s, i, i + Len(sub) - 1) = sub

\* ------------------------------------------------------- the provider
\* The bearer tokens a request may carry, and whose session each is.  T0 is
\* a token of no session.
Tokens == {"T1", "T2", "T0"}
TokenUser(token) ==
    IF token = "T1" THEN Some("u1") ELSE IF token = "T2" THEN Some("u2") ELSE None
AccessToken(u) == CHOOSE token \in Tokens : TokenUser(token) = Some(u)

Email(u) == u \o "@example.com"
Emails == {Email(u) : u \in Users}
\* The password the provider holds for each account.
Password(u) == "Secret-" \o u \o "!"
Passwords == {Password(u) : u \in Users}
Account(email) == CHOOSE u \in Users : Email(u) = email

\* The provider's user object: more attributes than the three this system
\* passes on.
ProviderUser(u) ==
    [id |-> u, email |-> Email(u), created_at |-> "2024-01-01",
     role |-> "authenticated", aud |-> "authenticated"]

ProviderSession(u) ==
    [access_token |-> AccessToken(u), refresh_token |-> "R-" \o u,
     expires_in |-> 900, token_type |-> "bearer"]

Raised(message) ==
    [kind |-> "raise", message |-> message, user |-> None, session |-> None]
Response(user, session) ==
    [kind |-> "response", message |-> "", user |-> user, session |-> session]
NoResponse == [kind |-> "none", message |-> "", user |-> None, session |-> None]

\* What auth.get_user(token) may answer: the user of the token's session
\* while the provider holds that session; a response without a user, no
\* response, or an error (token rejected, expired, provider unreachable).
\* A session can end at any time, so the token of a session may be
\* rejected too.
GetUserAnswers(token) ==
    {Raised("invalid JWT"), NoResponse, Response(None, None)} \cup
    (IF TokenUser(token) = None \/ token \notin sessions THEN {}
     ELSE {Response(Some(ProviderUser(TokenUser(token)[1])), None)})

\* The one client of the process (db) after sign_up or
\* sign_in_with_password: a session answered is held by the provider and
\* kept by the client as its own; without one the client keeps or drops the
\* session it had.
IssueSession(answer) ==
    IF answer.kind = "response" /\ answer.session # None
    THEN /\ sessions' = sessions \cup {answer.session[1].access_token}
         /\ client_session' = Some(answer.session[1].access_token)
         /\ logged_out' = logged_out \ {answer.session[1].access_token}
    ELSE /\ client_session' \in {client_session, None}
         /\ UNCHANGED <<sessions, logged_out>>

\* auth.sign_out(), called with no token: it ends the session the client
\* holds, if it holds one, and the client forgets it.
SignOut ==
    /\ sessions' = sessions \ (IF client_session = None THEN {}
                                ELSE {client_session[1]})
    /\ client_session' = None

\* What auth.sign_in_with_password may answer: a user and a session for the
\* account's password; for another password the provider's rejection, or a
\* response without a session; and for any an upstream failure.
SignInAnswers(email, password) ==
    {Raised("Connection refused")} \cup
    (IF password = Password(Account(email))
     THEN {Response(Some(ProviderUser(Account(email))),
                    Some(ProviderSession(Account(email))))}
     ELSE {Raised("Invalid login credentials"), Response(None, None)})

\* What auth.sign_up may answer: the new user with a session; the new user
\* without one (confirmation pending); no user; or an error.
SignUpAnswers(email) ==
    { Response(Some(ProviderUser(Account(email))),
               Some(ProviderSession(Account(email)))),
      Response(Some(ProviderUser(Account(email))), None),
      Response(None, None),
      Raised("User already registered"),
      Raised("Unable to validate email address: invalid format"),
      Raised("Password should be at least 6 characters"),
      Raised("Connection refused") }

\* ------------------------------------------------- get_current_user
UserDict(user) ==
    [id |-> user.id, email |-> user.email,
     created_at |-> IF "created_at" \in DOMAIN user THEN Some(user.created_at)
                    ELSE None]

\* get_current_user(credentials, supabase): the 401 it raises or the dict
\* it returns, and the provider calls it made
get_current_user(credentials, answer) ==
    IF credentials = None
    THEN [resp |-> Http(401, "Not authenticated"), user |-> None, calls |-> <<>>]
    ELSE LET response == answer[1]
             called == <<Call("auth.get_user", response.kind # "raise")>>
         IN  IF response.kind = "raise"
             THEN [resp |-> Http(401, "Could not validate credentials"),
                   user |-> None, calls |-> called]
             ELSE IF response.kind = "none" \/ response.user = None
             THEN [resp |-> Http(401, "Invalid or expired token"),
                   user |-> None, calls |-> called]
             ELSE [resp |-> Ok, user |-> Some(UserDict(response.user[1])),
                   calls |-> called]

\* The Authorization header of a request and the provider's answer to the
\* verification it causes.
GateInputs ==
    {[credentials |-> None, answer |-> None]} \cup
    UNION {{[credentials |-> Some(token), answer |-> Some(a)] :
               a \in GetUserAnswers(token)} : token \in Tokens}

\* ------------------------------------------------------- AuthService
\* str(HTTPException(status_code, detail))
HTTPExceptionStr(code, detail) == ToString(code) \o ": " \o detail

\* The except branch of AuthService.signup, by the text of the exception
SignupError(error_message) ==
    IF \/ Contains(LowerStr(error_message), "already registered")
       \/ Contains(LowerStr(error_message), "already exists")
    THEN Http(400, "Email already registered")
    ELSE IF Contains(LowerStr(error_message), "invalid email")
    THEN Http(400, "Invalid email format")
    ELSE IF Contains(LowerStr(error_message), "password")
    THEN Http(400, "Password does not meet requirements")
    ELSE Http(500, "Failed to create account. Please try again.")

\* AuthService.signup: the HTTPException raised, or the dict returned.  The
\* 400 raised inside the try block is caught by its own except Exception.
signup(email, password, answer) ==
    IF answer.kind = "raise"
    THEN [resp |-> SignupError(answer.message), result |-> None]
    ELSE IF answer.kind = "none" \/ answer.user = None
    THEN [resp |-> SignupError(
                      HTTPExceptionStr(400, "Failed to create user account")),
          result |-> None]
    ELSE [resp |-> Ok,
          result |-> Some([user |-> answer.user[1], session |-> answer.session,
                           email_confirmation_required |-> answer.session = None])]

\* a login that locks the account out after a wrong password
login_Lockout(email, password, answer) ==
    IF wrong_logins >= 1
    THEN [resp |-> Http(429, "Too many attempts"), result |-> None]
    ELSE IF answer.kind = "raise"
    THEN [resp |-> Http(401, "Invalid email or password"), result |-> None]
    ELSE IF answer.user = None \/ answer.session = None
    THEN [resp |-> Http(401, "Invalid credentials"), result |-> None]
    ELSE [resp |-> Ok,
          result |-> Some([user |-> answer.user[1], session |-> answer.session[1]])]

\* AuthService.login
login(email, password, answer) ==
    IF answer.kind = "raise"
    THEN [resp |-> IF \/ Contains(LowerStr(answer.message), "invalid")
                      \/ Contains(LowerStr(answer.message), "credentials")
                   THEN Http(401, "Invalid email or password")
                   ELSE Http(500, "Login failed. Please try again."),
          result |-> None]
    ELSE IF answer.kind = "none" \/ answer.user = None \/ answer.session = None
    THEN [resp |-> Http(401, "Invalid credentials"), result |-> None]
    ELSE [resp |-> Ok,
          result |-> Some([user |-> answer.user[1], session |-> answer.session[1]])]

\* ----------------------------------------------------- AuthController
\* The AuthResponse both handlers build from a session and a user
AuthResponse(session, user) ==
    [access_token |-> session.access_token, token_type |-> "bearer",
     expires_in |-> IF "expires_in" \in DOMAIN session THEN session.expires_in
                    ELSE 3600,
     refresh_token |-> session.refresh_token,
     user |-> UserDict(user)]

\* a confirmation answer with the status of a plain success
ConfirmEmail_Ok ==
    Http(200, "Account created successfully. Please check your email to confirm your account before logging in.")

ConfirmEmail ==
    Http(201, "Account created successfully. Please check your email to confirm your account before logging in.")

\* How the requests of the application settle the gate records.
GateAfter(t, g) ==
    gate' = [x \in Tasks |-> IF x = t THEN g
                             ELSE IF task[x].pc = "done" THEN IdleGate
                             ELSE gate[x]]

\* AuthController.handle_signup, for a body that passed SignupRequest
Signup(t, email, password, answer) ==
    /\ MayStart(t)
    /\ started' = started + 1
    /\ LET s == signup(email, password, answer)
           r == Called([Begin("signup", "") EXCEPT
                           !.request = Some([email |-> email, password |-> password,
                                             answer |-> answer])],
                       "auth.sign_up", answer.kind # "raise")
       IN  IF s.resp # Ok
           THEN Step(t, Finish(r, s.resp))
           ELSE IF s.result[1].email_confirmation_required
                   \/ s.result[1].session = None
           THEN Step(t, Finish(r, ConfirmEmail))
           ELSE Step(t, Finish([r EXCEPT !.body =
                                   Some(AuthResponse(s.result[1].session[1],
                                                     s.result[1].user))],
                               Http(201, "")))
    /\ GateAfter(t, IdleGate)
    /\ IssueSession(answer)
    /\ UNCHANGED <<documents, storage, nextId, now, uploads, removeFailed,
                   wrong_logins>>

\* AuthController.handle_login
Login(t, email, password, answer) ==
    /\ MayStart(t)
    /\ started' = started + 1
    /\ LET s == login(email, password, answer)
           r == Called([Begin("login", "") EXCEPT
                           !.request = Some([email |-> email, password |-> password,
                                             answer |-> answer])],
                       "auth.sign_in_with_password", answer.kind # "raise")
       IN  IF s.resp # Ok
           THEN Step(t, Finish(r, s.resp))
           ELSE Step(t, Finish([r EXCEPT !.body =
                                   Some(AuthResponse(s.result[1].session,
                                                     s.result[1].user))],
                               Http(200, "")))
    /\ wrong_logins' = IF password # Password(Account(email))
                       THEN wrong_logins + 1 ELSE 0
    /\ GateAfter(t, IdleGate)
    /\ IssueSession(answer)
    /\ UNCHANGED <<documents, storage, nextId, now, uploads, removeFailed>>

\* a logout that reports the provider's failure
Logout_Reports(t, current_user, ok) ==
    /\ MayStart(t)
    /\ started' = started + 1
    /\ Step(t, Finish(Called(Begin("logout", current_user.id), "auth.sign_out", ok),
                      IF ok THEN Http(200, "Logged out successfully")
                            ELSE Http(500, "Logout failed")))
    /\ IF ok THEN /\ SignOut
                  /\ logged_out' = logged_out \cup {gate'[t].credentials[1]}
             ELSE /\ client_session' \in {client_session, None}
                  /\ UNCHANGED <<sessions, logged_out>>
    /\ UNCHANGED <<documents, storage, nextId, now, uploads, removeFailed,
                   wrong_logins>>

\* The logout route: handle_logout(token=None), AuthService.logout, whose
\* sign_out() may raise.  The token the request bore reaches neither.
Logout(t, current_user, ok) ==
    /\ MayStart(t)
    /\ started' = started + 1
    /\ Step(t, Finish(Called(Begin("logout", current_user.id), "auth.sign_out", ok),
                      Http(200, "Logged out successfully")))
    /\ IF ok THEN /\ SignOut
                  /\ logged_out' = logged_out \cup {gate'[t].credentials[1]}
             ELSE /\ client_session' \in {client_session, None}
                  /\ UNCHANGED <<sessions, logged_out>>
    /\ UNCHANGED <<documents, storage, nextId, now, uploads, removeFailed,
                   wrong_logins>>

\* The me route
Me(t, current_user) ==
    /\ MayStart(t)
    /\ started' = started + 1
    /\ Step(t, Finish([Begin("me", current_user.id) EXCEPT
                          !.body = Some([user |-> current_user,
                                         message |-> "User authenticated successfully"])],
                      Http(200, "")))
    /\ UNCHANGED <<documents, storage, nextId, now, uploads, removeFailed,
                   wrong_logins, sessions, client_session, logged_out>>

\* ------------------------------------------------------ the application
\* app.include_router(...): the routers main.py mounts
IncludedRouters == {"auth"}

DocumentRoutes == {"upload", "list", "get", "delete", "download"}
ProtectedRoutes == {"logout", "me"} \cup DocumentRoutes
RouterOf(route) == IF route \in DocumentRoutes THEN "documents" ELSE "auth"

\* A request whose dependency get_current_user raised: answered 401, the
\* route function is not called.
Reject(t, route, g) ==
    /\ MayStart(t)
    /\ started' = started + 1
    /\ Step(t, Finish([Begin(route, "") EXCEPT !.calls = g.calls], g.resp))
    /\ UNCHANGED <<documents, storage, nextId, now, uploads, removeFailed,
                   wrong_logins, sessions, client_session, logged_out>>

\* A request to a path no mounted router serves: answered 404 'Not Found';
\* neither a dependency nor a route function runs.
Unrouted(t, route) ==
    /\ MayStart(t)
    /\ started' = started + 1
    /\ Step(t, Finish(Begin(route, ""), Http(404, "Not Found")))
    /\ UNCHANGED <<documents, storage, nextId, now, uploads, removeFailed,
                   wrong_logins, sessions, client_session, logged_out>>

\* The dict get_current_user returns for a request it lets through.
CurrentUser(in) == get_current_user(in.credentials, in.answer).user[1]

\* A request to a route declared with Depends(get_current_user): routing,
\* then the dependency, then the route function (handler) with the dict
\* returned.
Protected(t, route, in, handler) ==
    IF RouterOf(route) \notin IncludedRouters
    THEN /\ Unrouted(t, route)
         /\ GateAfter(t, [route |-> route, credentials |-> in.credentials,
                          answer |-> None, current_user |-> None])
    ELSE LET g == get_current_user(in.credentials, in.answer)
         IN  /\ GateAfter(t, [route |-> route, credentials |-> in.credentials,
                              answer |-> in.answer, current_user |-> g.user])
             /\ IF g.resp # Ok THEN Reject(t, route, g)
                               ELSE handler

\* The requests the running application answers.  No document handler is
\* ever entered, so none of their later steps occurs.
NextApp ==
    \E t \in Tasks :
        \/ \E in \in GateInputs, up \in Uploads :
              Protected(t, "upload", in,
                        UploadStart(t, CurrentUser(in).id, up.file, up.metadata)
                                    /\ UNCHANGED <<wrong_logins, sessionVars>>)
        \/ \E in \in GateInputs, l \in 1..MaxLimit, o \in 0..MaxOffset, ok \in BOOLEAN :
              Protected(t, "list", in,
                        ListStart(t, CurrentUser(in).id, l, o, ok)
                                    /\ UNCHANGED <<wrong_logins, sessionVars>>)
        \/ \E in \in GateInputs, d \in KnownIds, ok \in BOOLEAN :
              Protected(t, "get", in,
                        Get(t, CurrentUser(in).id, d, ok) /\ UNCHANGED <<wrong_logins, sessionVars>>)
        \/ \E in \in GateInputs, d \in KnownIds, ok \in BOOLEAN :
              Protected(t, "delete", in,
                        DeleteStart(t, CurrentUser(in).id, d, ok)
                                    /\ UNCHANGED <<wrong_logins, sessionVars>>)
        \/ \E in \in GateInputs, d \in KnownIds, ok \in BOOLEAN :
              Protected(t, "download", in,
                        DownloadStart(t, CurrentUser(in).id, d, ok)
                                    /\ UNCHANGED <<wrong_logins, sessionVars>>)
        \/ \E in \in GateInputs, ok \in BOOLEAN :
              Protected(t, "logout", in, Logout(t, CurrentUser(in), ok))
        \/ \E in \in GateInputs :
              Protected(t, "me", in, Me(t, CurrentUser(in)))
        \/ \E e \in Emails, p \in Passwords :
              \E a \in SignInAnswers(e, p) : Login(t, e, p, a)
        \/ \E e \in Emails, p \in Passwords :
              \E a \in SignUpAnswers(e) : Signup(t, e, p, a)

SpecApp == Init /\ [][NextApp]_vars

\* ------------------------------------------------ storage paths alone
Repeat(c, n) == [i \in 1..n |-> c]

RECURSIVE JoinSlash(_)
JoinSlash(parts) ==
    IF Len(parts) = 1 THEN parts[1]
    ELSE parts[1] \o <<"/">> \o JoinSlash(Tail(parts))

\* The segments the filenames of a client are put together from: empty
\* (a leading, doubled or trailing '/'), '.', '..', '..' and a backslash,
\* a directory name with characters the sanitizer drops, and a PDF name.
Segments ==
    { <<>>, <<".">>, <<".", ".">>, <<".", ".", "\\">>,
      <<"e", "t", "c", ":", "~">>, Name_a_pdf }

\* Filenames of two and three segments, and names over 255 characters:
\* with an extension, with a dot only at the front, and without a dot.
PathNames ==
    {JoinSlash(<<a, b>>) : a, b \in Segments} \cup
    {JoinSlash(<<a, b, c>>) : a, b, c \in {<<>>, <<".", ".">>, Name_a_pdf}} \cup
    { Repeat("a", 252) \o PdfExt,
      <<".", ".", "/">> \o Repeat("b", 300) \o PdfExt,
      <<".">> \o Repeat("c", 255),
      Repeat("d", 256) }

\* FileValidator.generate_storage_path(user_id, filename) on its own
GeneratePath(t, user_id, filename) ==
    /\ MayStart(t)
    /\ started' = started + 1
    /\ nextId' = nextId + 1
    /\ LET r == [Begin("generate_storage_path", user_id) EXCEPT
                    !.request = Some([filename |-> filename]),
                    !.document_id = Uuid(nextId + 1)]
       IN  IF SanitizeRaises(filename)
           THEN Step(t, Finish(r, Http(500, "ValueError")))
           ELSE Step(t, Finish(
                    [r EXCEPT !.storage_path =
                        generate_storage_path(user_id, filename,
                                              Uuid(nextId + 1)).storage_path],
                    Ok))
    /\ UNCHANGED <<documents, storage, now, uploads, removeFailed>>

NextPath ==
    \E t \in Tasks, u \in Users, f \in PathNames :
        GeneratePath(t, u, f) /\ UNCHANGED authVars

SpecPath == Init /\ [][NextPath]_vars

\* -------------------------------------- DocumentRepository.update_status
\* an update that adds the error to the metadata the row has
update_status_Merge(document_id, status, error_message, ok) ==
    LET message == IF error_message = None THEN "" ELSE error_message[1]
        Updated(d) ==
            IF message # ""
            THEN [d EXCEPT !.status = status,
                           !.metadata = @ \cup {<<"error", message>>}]
            ELSE [d EXCEPT !.status = status]
    IN  IF ~ok THEN [rows |-> documents, updated |-> FALSE]
        ELSE [rows |-> {IF d.id = document_id THEN Updated(d) ELSE d :
                            d \in documents},
              updated |-> SelectById(document_id) # {}]

\* DocumentRepository.update_status: the table after it and what it
\* returns.  'if error_message:' is false for None and for the empty
\* string; an exception of the update is logged and answered False.
update_status(document_id, status, error_message, ok) ==
    LET message == IF error_message = None THEN "" ELSE error_message[1]
        Updated(d) ==
            IF message # ""
            THEN [d EXCEPT !.status = status,
                           !.metadata = {<<"error", message>>}]
            ELSE [d EXCEPT !.status = status]
    IN  IF ~ok THEN [rows |-> documents, updated |-> FALSE]
        ELSE [rows |-> {IF d.id = document_id THEN Updated(d) ELSE d :
                            d \in documents},
              updated |-> SelectById(document_id) # {}]

Statuses == {"processing", "failed"}
ErrorMessages == {None, Some(""), Some("boom")}

\* A call of update_status.  Nothing in this repository calls it; it is
\* there for a processing stage to call.
UpdateStatus(t, document_id, status, error_message, ok) ==
    /\ MayStart(t)
    /\ started' = started + 1
    /\ LET u == update_status(document_id, status, error_message, ok)
           r == Called([Begin("update_status", "") EXCEPT
                           !.document_id = document_id,
                           !.request = Some([status |-> status,
                                             error_message |-> error_message]),
                           !.body = Some([updated |-> u.updated])],
                       "table.update", ok)
       IN  /\ documents' = u.rows
           /\ Step(t, Finish(r, Ok))
    /\ UNCHANGED <<storage, nextId, now, uploads, removeFailed>>

\* Uploads, and calls of update_status on the rows they leave.
NextStatus ==
    \E t \in Tasks :
        \/ \E u \in Users, up \in {SmallPdf, LargestPdf} :
              UploadStart(t, u, up.file, up.metadata) /\ UNCHANGED authVars
        \/ \E ok \in BOOLEAN : UploadStorageWrite(t, ok) /\ UNCHANGED authVars
        \/ \E ok \in BOOLEAN : UploadInsert(t, ok) /\ UNCHANGED authVars
        \/ \E ok \in BOOLEAN : UploadCompensate(t, ok) /\ UNCHANGED authVars
        \/ \E d \in KnownIds, s \in Statuses, m \in ErrorMessages, ok \in BOOLEAN :
              UpdateStatus(t, d, s, m, ok) /\ UNCHANGED authVars

SpecStatus == Init /\ [][NextStatus]_vars

\* --------------------------------------------------------------- claims
Done(t, op) == task[t].op = op /\ task[t].pc = "done"

RowsAt(path) == {d \in documents : d.bucket_path = path}

\* C1: whenever no request is in flight, every row's bucket_path names an
\* object that exists in storage.
C1_RowsHaveObjects ==
    Quiescent => \A d \in documents : Exists(d.bucket_path)

\* C2, as stated: whenever no request is in flight, every object in storage
\* is the bucket_path of exactly one row.
C2_ObjectsHaveOneRow ==
    Quiescent => \A o \in storage : Cardinality(RowsAt(o.path)) = 1

\* C2, amended: whenever no request is in flight, every object in storage
\* is the bucket_path of exactly one row, unless a storage removal of that
\* object has failed.
C2_ObjectsHaveOneRowUnlessRemovalFailed ==
    Quiescent =>
        \A o \in storage :
            o.path \notin removeFailed => Cardinality(RowsAt(o.path)) = 1

\* C2, its case: an upload whose insert failed has removed its object, and
\* a delete has removed object and row, with other objects left in storage.
C2_Witness ==
    /\ Quiescent
    /\ storage # {}
    /\ \E t \in Tasks :
          \/ /\ Done(t, "upload")
             /\ task[t].calls = <<Call("storage.upload", TRUE),
                                  Call("table.insert", FALSE),
                                  Call("storage.remove", TRUE)>>
          \/ /\ Done(t, "delete")
             /\ task[t].resp.code = 200
             /\ Call("storage.remove", TRUE) \in Range(task[t].calls)

\* The step starts a request in slot t.
StartBy(t) == Free(t) /\ started' = started + 1 /\ task'[t].pc # "idle"

UploadCalls(t) == [i \in 1..Len(task[t].calls) |-> task[t].calls[i].call]

\* C3: an upload whose storage write succeeded and whose insert failed
\* calls storage.remove next and nothing else, is answered 500 'Failed to
\* create document record', and leaves no row with its document_id; when
\* the removal succeeds the object it wrote at storage_path is gone.
C3_InsertFailureCompensated ==
    \A t \in Tasks :
        ( /\ task[t].op = "upload"
          /\ Len(task[t].calls) >= 2
          /\ task[t].calls[1] = Call("storage.upload", TRUE)
          /\ task[t].calls[2] = Call("table.insert", FALSE) )
        =>
        /\ task[t].pc \in {"compensate", "done"}
        /\ \A d \in documents : d.id # task[t].document_id
        /\ task[t].pc = "done" =>
              /\ UploadCalls(t) = <<"storage.upload", "table.insert", "storage.remove">>
              /\ task[t].resp = Http(500, "Failed to create document record")
              /\ task[t].calls[3].ok => ~Exists(task[t].storage_path)

C3_Witness ==
    \E t \in Tasks :
        /\ Done(t, "upload")
        /\ task[t].calls = <<Call("storage.upload", TRUE),
                             Call("table.insert", FALSE),
                             Call("storage.remove", TRUE)>>
        /\ task[t].resp.code = 500

\* C4: an upload whose storage write failed is answered 500 'Failed to
\* upload file to storage' at once: it makes no further call (no insert),
\* no row has its document_id, and the failing step leaves the rows as
\* they were.
C4_StorageFailureStops ==
    /\ [](\A t \in Tasks :
            ( /\ task[t].op = "upload"
              /\ Len(task[t].calls) >= 1
              /\ task[t].calls[1] = Call("storage.upload", FALSE) )
            =>
            /\ task[t].pc = "done"
            /\ Len(task[t].calls) = 1
            /\ task[t].resp = Http(500, "Failed to upload file to storage")
            /\ \A d \in documents : d.id # task[t].document_id)
    /\ [][\A t \in Tasks :
            ( /\ task[t].pc = "storage_upload"
              /\ task'[t].calls = <<Call("storage.upload", FALSE)>> )
            => documents' = documents]_vars

C4_Witness ==
    \E t \in Tasks :
        /\ Done(t, "upload")
        /\ task[t].calls = <<Call("storage.upload", FALSE)>>
        /\ documents # {}

\* The claim's cases of an upload to reject, from the file itself.
Rejectable(file) ==
    \/ file = None
    \/ /\ file # None
       /\ \/ file[1].content_type \notin allowed_mime_types
          \/ Len(file[1].filename) < 4
          \/ Lower(SubSeq(file[1].filename, Len(file[1].filename) - 3,
                          Len(file[1].filename))) # <<".", "p", "d", "f">>
          \/ file[1].payload.size = 0
          \/ file[1].payload.size > 5 * 1024 * 1024

\* C5: an upload of a file of a disallowed content type, without a '.pdf'
\* ending, empty or over the limit is answered 400 or 413 by the step that
\* starts it, which makes no store call and leaves storage and rows as
\* they were; such an upload is never in flight.
C5_RejectedBeforeAnyCall ==
    /\ [](\A t \in Tasks :
            (task[t].op = "upload" /\ Rejectable(task[t].file))
            => /\ task[t].pc = "done"
               /\ task[t].calls = <<>>
               /\ task[t].resp.code \in {400, 413})
    /\ [][\A t \in Tasks :
            (StartBy(t) /\ task'[t].op = "upload" /\ Rejectable(task'[t].file))
            => /\ storage' = storage
               /\ documents' = documents]_vars

C5_Witness ==
    \E t \in Tasks :
        /\ Done(t, "upload")
        /\ task[t].file # None
        /\ task[t].file[1].filename = Name_a_txt
        /\ task[t].resp.code = 400
        /\ storage # {}

\* The five checks of the claim, each on its own.
FilePresent(file) == file # None
TypeAllowed(file) == file[1].content_type \in {"application/pdf"}
HasPdfExtension(file) ==
    LET n == file[1].filename
    IN  /\ Len(n) >= 4
        /\ n[Len(n) - 3] = "."
        /\ n[Len(n) - 2] \in {"p", "P"}
        /\ n[Len(n) - 1] \in {"d", "D"}
        /\ n[Len(n)] \in {"f", "F"}
WithinLimit(file) == file[1].payload.size <= 5 * 1024 * 1024
NonEmpty(file) == file[1].payload.size > 0

\* C6: validation answers the error of the first check that fails, in the
\* order file present (400), content type allowed (400), '.pdf' extension
\* (400), size <= max_size_mb*1024*1024 (413), size > 0 (400), and lets the
\* upload go on exactly when all five hold.
C6_ValidationOrder ==
    \A t \in Tasks :
        task[t].op = "upload" =>
            LET f == task[t].file
                r == task[t].resp
                rejected == task[t].pc = "done" /\ task[t].calls = <<>>
            IN  /\ ~FilePresent(f) =>
                      rejected /\ r = Http(400, "No file provided")
                /\ FilePresent(f) /\ ~TypeAllowed(f) =>
                      /\ rejected
                      /\ r = Http(400, "Invalid file type. Only PDF files are allowed. Got: "
                                          \o f[1].content_type)
                /\ FilePresent(f) /\ TypeAllowed(f) /\ ~HasPdfExtension(f) =>
                      rejected /\ r = Http(400, "File must have .pdf extension")
                /\ ( FilePresent(f) /\ TypeAllowed(f) /\ HasPdfExtension(f)
                     /\ ~WithinLimit(f) ) =>
                      rejected /\ r = Http(413, "File too large. Maximum size: 5MB")
                /\ ( FilePresent(f) /\ TypeAllowed(f) /\ HasPdfExtension(f)
                     /\ WithinLimit(f) /\ ~NonEmpty(f) ) =>
                      rejected /\ r = Http(400, "File is empty")
                /\ ( FilePresent(f) /\ TypeAllowed(f) /\ HasPdfExtension(f)
                     /\ WithinLimit(f) /\ NonEmpty(f) ) =>
                      task[t].pc = "storage_upload" /\ r = Ok

\* C6, its cases: a file of exactly the maximum size is let through, and a
\* file failing several checks gets the error of the first.
C6_Witness ==
    /\ \E t \in Tasks :
          /\ task[t].pc = "storage_upload"
          /\ task[t].file[1].payload.size = 5 * 1024 * 1024
    /\ \E t \in Tasks :
          /\ Done(t, "upload")
          /\ task[t].file # None
          /\ task[t].file[1].content_type = "text/plain"
          /\ task[t].file[1].filename = Name_a_txt
          /\ task[t].file[1].payload.size = 0
          /\ task[t].resp.code = 400

AllCallsOk(t) == \A i \in 1..Len(task[t].calls) : task[t].calls[i].ok

\* C7: a download, by the uploading user, of a document whose upload was
\* answered 202 and on which no delete has acted since, with every call of
\* the download answered, returns 200 and exactly the payload uploaded.
C7_DownloadReturnsUploadedBytes ==
    \A t \in Tasks :
        \A u \in uploads :
            ( /\ Done(t, "download")
              /\ AllCallsOk(t)
              /\ u.document_id = task[t].document_id
              /\ u.user_id = task[t].user_id )
            => /\ task[t].resp.code = 200
               /\ task[t].body = Some(u.payload)

\* C7, its case: the bytes of a file uploaded in this behaviour come back.
C7_Witness ==
    \E t \in Tasks :
        /\ Done(t, "download")
        /\ task[t].resp.code = 200
        /\ task[t].user_id = "u2"
        /\ task[t].body = Some(LargestPdf.file[1].payload)
        /\ Cardinality(storage) = 2

\* C8: a delete request naming a document that another user owns is
\* answered 404 'Document not found' by its lookup, and leaves the rows
\* and the stored objects as they were.
C8_DeleteOfForeignDocumentNotFound ==
    [][\A t \in Tasks :
        \A d \in documents :
            ( /\ StartBy(t)
              /\ task'[t].op = "delete"
              /\ d.id = task'[t].document_id
              /\ d.user_id # task'[t].user_id )
            => /\ task'[t].pc = "done"
               /\ task'[t].resp = NotFound
               /\ documents' = documents
               /\ storage' = storage]_vars

\* C9: a get or download request holds, and returns, a document only when
\* that row's user_id is the requesting user; otherwise it is answered 404.
C9_OnlyOwnDocumentsReturned ==
    \A t \in Tasks :
        task[t].op \in {"get", "download"} =>
            /\ task[t].document # None =>
                  task[t].document[1].user_id = task[t].user_id
            /\ (task[t].pc = "done" /\ task[t].document = None) =>
                  task[t].resp = NotFound

OwnedBy(user_id) == {d \in documents : d.user_id = user_id}
Newer(d) == {e \in OwnedBy(d.user_id) : e.created_at > d.created_at}
Min(a, b) == IF a < b THEN a ELSE b
Max(a, b) == IF a > b THEN a ELSE b

\* The window a list request is owed: min(limit, count - offset) rows of
\* the user, the i-th having exactly offset + i - 1 newer rows of the user.
IsWindow(rows, user_id, limit, offset) ==
    /\ Len(rows) = Min(limit, Max(0, Cardinality(OwnedBy(user_id)) - offset))
    /\ \A i \in 1..Len(rows) :
          /\ rows[i] \in OwnedBy(user_id)
          /\ Cardinality(Newer(rows[i])) = offset + i - 1

\* C10: list(user_id, limit, offset) returns at most limit rows, all owned
\* by user_id, newest first, starting at position offset, and a total
\* equal to the number of rows user_id owns.
C10_ListWindowAndTotal ==
    /\ [](\A t \in Tasks :
            Done(t, "list") =>
                /\ Len(task[t].rows) <= task[t].limit
                /\ \A i \in 1..Len(task[t].rows) :
                      task[t].rows[i].user_id = task[t].user_id
                /\ \A i, j \in 1..Len(task[t].rows) :
                      i < j => task[t].rows[i].created_at > task[t].rows[j].created_at
                /\ task[t].total = Cardinality(OwnedBy(task[t].user_id)))
    /\ [][\A t \in Tasks :
            (StartBy(t) /\ task'[t].op = "list") =>
                IsWindow(task'[t].rows, task'[t].user_id,
                         task'[t].limit, task'[t].offset)]_vars

\* What does hold of list: when both of its queries are answered, the rows
\* are the window owed at the first query and the total is the number of
\* rows the user owns at the second.
ListAnsweredWindowAndTotal ==
    /\ [](\A t \in Tasks :
            (Done(t, "list") /\ AllCallsOk(t)) =>
                /\ Len(task[t].rows) <= task[t].limit
                /\ \A i \in 1..Len(task[t].rows) :
                      task[t].rows[i].user_id = task[t].user_id
                /\ \A i, j \in 1..Len(task[t].rows) :
                      i < j => task[t].rows[i].created_at > task[t].rows[j].created_at
                /\ task[t].total = Cardinality(OwnedBy(task[t].user_id)))
    /\ [][\A t \in Tasks :
            (StartBy(t) /\ task'[t].op = "list" /\ task'[t].calls[1].ok) =>
                IsWindow(task'[t].rows, task'[t].user_id,
                         task'[t].limit, task'[t].offset)]_vars

\* C11: in a delete whose lookup found the document, a failed removal of
\* the stored object does not end the request: the row delete is still
\* made, and when it is answered the row is gone and, the row having been
\* there, the answer is 200 'Document deleted successfully'; a get of an
\* id that has no row is answered 404.
C11_RemovalFailureDoesNotBlockDelete ==
    /\ [](\A t \in Tasks :
            (Done(t, "delete") /\ Len(task[t].calls) >= 2) =>
                /\ Len(task[t].calls) = 3
                /\ task[t].calls[3].call = "table.delete")
    /\ [][\A t \in Tasks :
            ( /\ task[t].pc = "delete_row"
              /\ ~task[t].calls[2].ok
              /\ task'[t].pc = "done"
              /\ task'[t].calls[3].ok )
            => /\ \A d \in documents' : d.id # task[t].document_id
               /\ SelectById(task[t].document_id) # {} =>
                    task'[t].resp = Http(200, "Document deleted successfully")]_vars
    /\ [][\A t \in Tasks :
            ( /\ StartBy(t)
              /\ task'[t].op = "get"
              /\ SelectById(task'[t].document_id) = {} )
            => task'[t].resp = NotFound]_vars

\* C11, its case: the seeded document's object is left behind by a failed
\* removal, its row is gone, and a later get of it is answered 404.
C11_Witness ==
    \E t \in Tasks :
        /\ Done(t, "get")
        /\ task[t].document_id = Uuid(1)
        /\ task[t].resp = NotFound
        /\ task[t].calls[1].ok
        /\ documents = {}
        /\ removeFailed # {}
        /\ storage # {}

CallNames(r) == {r.calls[i].call : i \in 1..Len(r.calls)}

\* C12: a download whose lookup finds no row is answered 404 'Document not
\* found' with no storage read made; a download whose lookups found the
\* row and whose storage read fails (the call fails, or the object is
\* missing) is answered 500 'Failed to download file'.
C12_DownloadLookupThenRead ==
    /\ [][\A t \in Tasks :
            ( /\ \/ StartBy(t) /\ task'[t].op = "download"
                 \/ task[t].pc = "lookup" /\ task'[t].pc # "lookup"
              /\ SelectById(task'[t].document_id) = {} )
            => /\ task'[t].pc = "done"
               /\ task'[t].resp = NotFound
               /\ "storage.download" \notin CallNames(task'[t])]_vars
    /\ [][\A t \in Tasks :
            ( /\ task[t].pc = "storage_download"
              /\ task'[t].pc = "done"
              /\ \/ ~task'[t].calls[Len(task'[t].calls)].ok
                 \/ ~Exists(task[t].storage_path) )
            => /\ task'[t].resp = Http(500, "Failed to download file")
               /\ task'[t].body = None]_vars
    /\ [](\A t \in Tasks :
            (Done(t, "download") /\ task[t].resp = NotFound) =>
                "storage.download" \notin CallNames(task[t]))

\* C12, its case: the row is there, the storage read fails, 500 is answered.
C12_Witness ==
    \E t \in Tasks :
        /\ Done(t, "download")
        /\ SelectById(task[t].document_id) # {}
        /\ Exists(task[t].storage_path)
        /\ task[t].calls[3] = Call("storage.download", FALSE)
        /\ task[t].resp = Http(500, "Failed to download file")

\* The provider did not vouch for the token: it raised, or answered without
\* a user.
Rejects(answer) == answer.kind # "response" \/ answer.user = None

\* What the gate owes a request: 401 with no provider call when it bears no
\* token; 401 when the provider rejects the token; in both cases no route
\* function run (no user taken, nothing but the verification called, no
\* payload answered); and a route function run only with the dict
\* {id, email, created_at} of the user the provider answered.
Gated(t) ==
    /\ gate[t].credentials = None =>
          /\ task[t].resp.code = 401
          /\ task[t].calls = <<>>
    /\ (gate[t].credentials # None /\ gate[t].answer # None
           /\ Rejects(gate[t].answer[1])) =>
          task[t].resp.code = 401
    /\ task[t].resp.code = 401 =>
          /\ task[t].user_id = ""
          /\ CallNames(task[t]) \subseteq {"auth.get_user"}
          /\ task[t].body = None
          /\ gate[t].current_user = None
    /\ task[t].resp.code # 401 =>
          /\ gate[t].answer # None
          /\ ~Rejects(gate[t].answer[1])
          /\ gate[t].current_user =
                Some([id |-> gate[t].answer[1].user[1].id,
                      email |-> gate[t].answer[1].user[1].email,
                      created_at |-> Some(gate[t].answer[1].user[1].created_at)])
          /\ task[t].user_id = gate[t].current_user[1].id

\* C13: every request to a protected route (logout, me, the document
\* routes) is answered as the gate owes it.
C13_ProtectedRoutesGated ==
    \A t \in Tasks :
        (task[t].pc = "done" /\ gate[t].route \in ProtectedRoutes) => Gated(t)

\* What does hold: the requests to the protected routes of the mounted
\* routers are answered as the gate owes them.
MountedRoutesGated ==
    \A t \in Tasks :
        ( /\ task[t].pc = "done"
          /\ gate[t].route \in ProtectedRoutes
          /\ RouterOf(gate[t].route) \in IncludedRouters ) => Gated(t)

\* C14: a logout request that passed the gate is answered 200 'Logged out
\* successfully', whether sign_out() returned or raised.
C14_LogoutAlwaysOk ==
    \A t \in Tasks :
        (Done(t, "logout") /\ gate[t].current_user # None) =>
            /\ task[t].resp = Http(200, "Logged out successfully")
            /\ "auth.sign_out" \in CallNames(task[t])

\* C14, its case: sign_out() raised and the answer is 200.
C14_Witness ==
    \E t \in Tasks :
        /\ Done(t, "logout")
        /\ gate[t].current_user # None
        /\ task[t].calls = <<Call("auth.sign_out", FALSE)>>
        /\ task[t].resp.code = 200

C16_SignupTokensIffSession ==
    \A t \in Tasks :
        Done(t, "signup") =>
            LET answer == task[t].request[1].answer
            IN  /\ task[t].body # None <=>
                      (answer.kind = "response" /\ answer.session # None)
                /\ task[t].body # None =>
                      /\ task[t].resp.code = 201
                      /\ task[t].body[1].access_token = answer.session[1].access_token
                      /\ task[t].body[1].refresh_token = answer.session[1].refresh_token
                /\ (answer.kind = "response" /\ answer.user # None
                       /\ answer.session = None) =>
                      /\ task[t].resp.code = 201
                      /\ task[t].resp.detail # ""
                      /\ task[t].body = None

\* C16, its case: the provider made the user and issued no session.
C16_Witness ==
    \E t \in Tasks :
        /\ Done(t, "signup")
        /\ task[t].request[1].answer.user # None
        /\ task[t].request[1].answer.session = None
        /\ task[t].resp.code = 201
        /\ task[t].body = None

\* C17: whatever the filename, a storage path generated for user_id is the
\* user id, one '/', the document id, '_' and a name of kept characters:
\* after the user's prefix there is no '/' and no backslash, so
\* the path has exactly two components, the user's and one that starts
\* with the document id and so is neither '.' nor '..'.
C17_PathInsideUserPrefix ==
    \A t \in Tasks :
        (Done(t, "generate_storage_path") /\ task[t].resp = Ok) =>
            LET path == task[t].storage_path
                rest == SubSeq(path, 5, Len(path))
            IN  /\ Len(path) >= 4
                /\ path[1] = task[t].user_id
                /\ path[2] = "/"
                /\ path[3] = task[t].document_id
                /\ path[4] = "_"
                /\ \A i \in 1..Len(rest) : rest[i] \notin {"/", "\\", ":", "~"}
                /\ Len(SplitSlash(path)) = 2
                /\ \A i \in 1..2 :
                      SplitSlash(path)[i] \notin {<<".">>, <<".", ".">>}

\* C17, its case: a filename that climbs out ('../..\') got a path.
C17_Witness ==
    \E t \in Tasks :
        /\ Done(t, "generate_storage_path")
        /\ task[t].resp = Ok
        /\ task[t].request[1].filename =
              <<".", ".", "/", ".", ".", "\\">>
        /\ task[t].storage_path = <<"u2", "/", "d2", "_", ".", ".">>

InFlightUpload(t) ==
    task[t].op = "upload" /\ task[t].pc \in {"storage_upload", "db_insert", "compensate"}

\* C18: two uploads never hold the same document id or the same storage
\* path, also when they run at once for the same user and filename; no two
\* rows share an id or a bucket_path and no two objects a path; and an
\* upload writes its object where no object is and inserts its row where
\* no row of that id is.
C18_UploadsNeverCollide ==
    /\ [](\A t, x \in Tasks :
            (t # x /\ InFlightUpload(t) /\ InFlightUpload(x)) =>
                /\ task[t].document_id # task[x].document_id
                /\ task[t].storage_path # task[x].storage_path)
    /\ [](\A d, e \in documents :
            (d.id = e.id \/ d.bucket_path = e.bucket_path) => d = e)
    /\ [](\A o, p \in storage : o.path = p.path => o = p)
    /\ [][\A t \in Tasks :
            (task[t].pc = "storage_upload" /\ task'[t].pc # "storage_upload") =>
                /\ ~Exists(task[t].storage_path)
                /\ RowsAt(task[t].storage_path) = {}]_vars
    /\ [][\A t \in Tasks :
            (task[t].pc = "db_insert" /\ task'[t].pc # "db_insert") =>
                SelectById(task[t].document_id) = {}]_vars

\* C18, its case: two uploads of the same filename by the same user in
\* flight at once, one of them already stored.
C18_Witness ==
    /\ InFlightUpload("t1") /\ InFlightUpload("t2")
    /\ task["t1"].user_id = task["t2"].user_id
    /\ task["t1"].file = task["t2"].file
    /\ task["t1"].pc = "db_insert"
    /\ task["t2"].pc = "db_insert"
    /\ Cardinality(storage) = 3

TableCalls == {"table.select", "table.count", "table.insert", "table.delete"}

\* C19: a get, list, delete, download or upload request in which a call
\* to the documents table raised is answered 500: not 404, and not 200.
C19_StoreFailureIs500 ==
    \A t \in Tasks :
        ( /\ task[t].pc = "done"
          /\ task[t].op \in {"get", "list", "delete", "download", "upload"}
          /\ \E i \in 1..Len(task[t].calls) :
                task[t].calls[i].call \in TableCalls /\ ~task[t].calls[i].ok )
        => task[t].resp.code = 500

\* What update_status owes, with the messages of Replacing taken as
\* supplied: the rows of other ids stay; without an answered update of a
\* row nothing changes and False is returned; else True is returned and
\* the row differs in its status, set to the one given, and, for a
\* supplied message, in its metadata, now exactly {error: message}.
UpdateStatusContract(Replacing) ==
    \A t \in Tasks :
        (StartBy(t) /\ task'[t].op = "update_status") =>
            LET id == task'[t].document_id
                q == task'[t].request[1]
                updated == task'[t].calls[1].ok /\ SelectById(id) # {}
            IN  /\ task'[t].body = Some([updated |-> updated])
                /\ ~updated => documents' = documents
                /\ {d \in documents' : d.id # id} = {d \in documents : d.id # id}
                /\ updated =>
                      {d \in documents' : d.id = id} =
                      {[d EXCEPT !.status = q.status,
                                 !.metadata =
                                    IF q.error_message \in Replacing
                                    THEN {<<"error", q.error_message[1]>>}
                                    ELSE @] : d \in SelectById(id)}
                /\ UNCHANGED <<storage, uploads>>

\* C20: update_status sets the status; with any message supplied, the
\* empty one too, the metadata becomes exactly {error: message}; with none
\* the metadata and all other fields stay; True exactly for a row updated.
C20_UpdateStatus == [][UpdateStatusContract(ErrorMessages \ {None})]_vars

\* C20 amended: the metadata is replaced for a non-empty message only; an
\* empty message leaves it as with none.
C20_UpdateStatusNonEmptyMessage ==
    [][UpdateStatusContract({Some("boom")})]_vars

\* C20, its case: the row of an upload that came with a title now holds
\* the error alone.
C20_Witness ==
    \E t \in Tasks :
        /\ Done(t, "update_status")
        /\ task[t].body = Some([updated |-> TRUE])
        /\ task[t].request[1].error_message = Some("boom")
        /\ \E d \in documents :
              /\ d.id = task[t].document_id
              /\ d.file_name = Name_up_PDF
              /\ d.status = "failed"
              /\ d.metadata = {<<"error", "boom">>}

\* C21: the application serves the document routes: a request to one of
\* them is never answered as an unknown route (404 'Not Found'), and one
\* that bears a token goes through get_current_user.
C21_DocumentRoutesServed ==
    \A t \in Tasks :
        (task[t].pc = "done" /\ gate[t].route \in DocumentRoutes) =>
            /\ RouterOf(gate[t].route) \in IncludedRouters
            /\ task[t].resp # Http(404, "Not Found")
            /\ gate[t].credentials # None => gate[t].answer # None

\* C22: an upload whose insert failed and whose compensating removal
\* failed too is answered 500 'Failed to create document record', the
\* answer of the insert's failure.
C22_CompensationFailureNotPropagated ==
    \A t \in Tasks :
        ( /\ Done(t, "upload")
          /\ Len(task[t].calls) = 3
          /\ task[t].calls[2] = Call("table.insert", FALSE)
          /\ task[t].calls[3] = Call("storage.remove", FALSE) )
        => task[t].resp = Http(500, "Failed to create document record")

\* C22, its case: insert and removal both failed; the object is still there.
C22_Witness ==
    \E t \in Tasks :
        /\ Done(t, "upload")
        /\ task[t].calls = <<Call("storage.upload", TRUE),
                             Call("table.insert", FALSE),
                             Call("storage.remove", FALSE)>>
        /\ Exists(task[t].storage_path)
        /\ RowsAt(task[t].storage_path) = {}
        /\ task[t].resp.code = 500

\* C23: the step that ends an upload with 202 adds exactly one row, not
\* there before: its id the generated document id, its user the uploader,
\* its status pending, its bucket_path the path at which the payload sent
\* lies in the bucket; it changes no other row and no object.  The storage
\* write adds that one object and changes no row.  An insert is made only
\* after the storage write was answered.
C23_SuccessfulUploadAddsOneRow ==
    /\ [][\A t \in Tasks :
            ( /\ task[t].op = "upload"
              /\ task[t].pc # "done"
              /\ task'[t].pc = "done"
              /\ task'[t].resp.code = 202 )
            => \E row \in documents' :
                  /\ row \notin documents
                  /\ documents' = documents \cup {row}
                  /\ SelectById(row.id) = {}
                  /\ row.id = task[t].document_id
                  /\ row.user_id = task[t].user_id
                  /\ row.status = "pending"
                  /\ row.bucket_path = task[t].storage_path
                  /\ row.file_name = task[t].file[1].filename
                  /\ task'[t].document = Some(row)
                  /\ [path |-> row.bucket_path,
                      payload |-> task[t].file[1].payload] \in storage
                  /\ storage' = storage]_vars
    /\ [][\A t \in Tasks :
            (task[t].pc = "storage_upload" /\ task'[t].pc = "db_insert") =>
                /\ storage' = storage \cup
                      {[path |-> task[t].storage_path,
                        payload |-> task[t].file[1].payload]}
                /\ documents' = documents]_vars
    /\ [](\A t \in Tasks : \A i \in 1..Len(task[t].calls) :
            (task[t].op = "upload" /\ task[t].calls[i].call = "table.insert") =>
                /\ i = 2
                /\ task[t].calls[1] = Call("storage.upload", TRUE))

\* C23, its case: an upload with metadata answered 202, beside the row
\* and the object that were there before.
C23_Witness ==
    \E t \in Tasks :
        /\ Done(t, "upload")
        /\ task[t].resp.code = 202
        /\ task[t].user_id = "u2"
        /\ task[t].document[1] \in documents
        /\ task[t].document[1].metadata = {<<"title", "T">>}
        /\ Cardinality(documents) = 2
        /\ Cardinality(storage) = 2

\* C24: a signup to which the provider answers a response without a user
\* is answered 400 'Failed to create user account'.
C24_SignupNoUserIs400 ==
    \A t \in Tasks :
        ( /\ Done(t, "signup")
          /\ task[t].request[1].answer.kind = "response"
          /\ task[t].request[1].answer.user = None )
        => task[t].resp = Http(400, "Failed to create user account")

\* C25: once a logout bearing token T was answered 200 with the provider's
\* sign_out not failing, a request to a protected route the application
\* serves that bears T is answered 401.
C25_LogoutInvalidatesPresentedToken ==
    [][\A t \in Tasks :
          ( /\ started' = started + 1
            /\ task'[t].pc = "done"
            /\ gate'[t].route \in ProtectedRoutes
            /\ RouterOf(gate'[t].route) \in IncludedRouters
            /\ gate'[t].credentials # None
            /\ gate'[t].credentials[1] \in logged_out )
          => task'[t].resp.code = 401]_vars

\* C26: a delete of a document of the requester in which every call was
\* answered, run beside another delete of the same document in any
\* interleaving, ends in 200 or in 404 and never in 500 'Failed to delete
\* document'; one that found the row and does not end in 200 leaves the
\* row removed by the other.
C26_ConcurrentDeletesNever500 ==
    \A t \in Tasks :
        ( /\ Done(t, "delete")
          /\ AllCallsOk(t)
          /\ task[t].document # None =>
                task[t].document[1].user_id = task[t].user_id )
        => /\ task[t].resp.code \in {200, 404}
           /\ (task[t].document # None /\ task[t].resp.code # 200) =>
                 SelectById(task[t].document_id) = {}

=============================================================================
